---------------------------- MODULE Spec2Model ----------------------------
(***************************************************************************)
(* The trivia REST backend of backend/flaskr/__init__.py: the question     *)
(* store, the six request handlers and the pagination helper.  One action  *)
(* is one request handled to completion (section 5 of the specification:   *)
(* single-threaded per request).                                           *)
(*                                                                         *)
(* A nullable value (a JSON field that body.get() finds absent, a NULL     *)
(* column) is a sequence of length at most one: <<>> is None, <<v>> is v.  *)
(* A text is a sequence of one-character strings.                          *)
(***************************************************************************)
EXTENDS Integers, Sequences, FiniteSets, TLC

VARIABLES
    questions,          \* table Question: a set of rows
    next_id,            \* the next value of the Question.id sequence
    writes,             \* number of rows inserted or deleted so far (bounded)
    before,             \* history: the table when the request in progress arrived
    request,            \* the request being handled, if any
    response,           \* the response made for it, not yet sent
    previous_questions, \* quiz client: ids of the questions already asked
    quiz_category,      \* quiz client: category id of the running session
    calls               \* quiz client: POST /quizzes calls made in the session

vars == <<questions, next_id, writes, before, request, response,
          previous_questions, quiz_category, calls>>

client == <<previous_questions, quiz_category, calls>>

---------------------------------------------------------------------------
(* Program constants and bounds *)

QUESTIONS_PER_PAGE == 10

\* Largest number of seeded questions: one more than a page.
MaxSeed == 11
\* Largest number of inserts and deletes in one behaviour.
MaxWrites == 2
\* Largest page query parameter a request carries.
MaxPage == 2
\* Number of seeded categories (ids 1..NumCategories).
NumCategories == 2
\* Largest number of seeded questions in the quiz specifications.
MaxQuizSeed == 3

None == <<>>
Some(v) == <<v>>

Max(a, b) == IF a > b THEN a ELSE b
Min(a, b) == IF a < b THEN a ELSE b

---------------------------------------------------------------------------
(* Strings *)

\* Case folding of the case-insensitive match.
Lower(c) == IF c = "A" THEN "a" ELSE IF c = "B" THEN "b" ELSE c

\* SQL LIKE on folded characters: % matches any run, _ any one character.
RECURSIVE LikeMatch(_, _)
LikeMatch(pattern, text) ==
    IF pattern = <<>> THEN text = <<>>
    ELSE IF Head(pattern) = "%"
         THEN \/ LikeMatch(Tail(pattern), text)
              \/ text # <<>> /\ LikeMatch(pattern, Tail(text))
    ELSE IF text = <<>> THEN FALSE
    ELSE IF Head(pattern) = "_" THEN LikeMatch(Tail(pattern), Tail(text))
    ELSE /\ Lower(Head(pattern)) = Lower(Head(text))
         /\ LikeMatch(Tail(pattern), Tail(text))

\* Question.question.ilike(f'%{search_term}%'); NULL ILIKE anything is NULL.
ilike(column, search_term) ==
    column # None /\ LikeMatch(<<"%">> \o search_term \o <<"%">>, column[1])

\* str(category_id) for a non-negative integer.
Digit(d) == CASE d = 0 -> "0" [] d = 1 -> "1" [] d = 2 -> "2" [] d = 3 -> "3"
              [] d = 4 -> "4" [] d = 5 -> "5" [] d = 6 -> "6" [] d = 7 -> "7"
              [] d = 8 -> "8" [] d = 9 -> "9"
RECURSIVE str(_)
str(n) == IF n < 10 THEN <<Digit(n)>> ELSE str(n \div 10) \o <<Digit(n % 10)>>

\* int(s) for a string of decimal digits.
DigitValue(c) == CHOOSE d \in 0..9 : Digit(d) = c
RECURSIVE int(_)
int(s) == IF s = <<>> THEN 0
          ELSE 10 * int(SubSeq(s, 1, Len(s) - 1)) + DigitValue(s[Len(s)])

---------------------------------------------------------------------------
(* The store *)

\* Table Category, seeded out of band and never changed by the API.
CategoryType(i) == IF i = 1 THEN "Science" ELSE IF i = 2 THEN "Art" ELSE "Other"
Categories == {[id |-> i, type |-> CategoryType(i)] : i \in 1..NumCategories}

\* Category.query.filter(Category.id == category_id).first()
CategoryFirst(category_id) ==
    IF \E c \in Categories : c.id = category_id
    THEN Some(CHOOSE c \in Categories : c.id = category_id)
    ELSE None

\* [category.type for category in Category.query.all()]
RECURSIVE CategoryTypes(_)
CategoryTypes(n) == IF n = 0 THEN <<>> ELSE Append(CategoryTypes(n - 1), CategoryType(n))

\* Question.format()
format(q) == [id |-> q.id, question |-> q.question, answer |-> q.answer,
              category |-> q.category, difficulty |-> q.difficulty]

\* Category.format()
category_format(c) == [id |-> c.id, type |-> c.type]

\* The rows of a set in ascending id: order_by(Question.id).all()
OrderById(rows) ==
    LET smaller == [r \in rows |-> Cardinality({o \in rows : o.id < r.id})]
    IN  [i \in 1..Cardinality(rows) |-> CHOOSE r \in rows : smaller[r] = i - 1]

\* The rotation of a sequence that starts at its element k+1.
Rotate(s, k) == SubSeq(s, k + 1, Len(s)) \o SubSeq(s, 1, k)

\* .all() without order_by: the store returns the rows in an order of its own.
AnyOrder(rows) == {Rotate(OrderById(rows), k) : k \in 0..Max(Cardinality(rows) - 1, 0)}

\* Question.query.filter(Question.id == question_id).one_or_none()
one_or_none(question_id) ==
    IF \E q \in questions : q.id = question_id
    THEN Some(CHOOSE q \in questions : q.id = question_id)
    ELSE None

\* Whether the store takes the row: it has no presence or foreign-key check at
\* the API layer, a row with NULL columns is the store's to accept or reject.
InsertOutcomes(row) ==
    IF None \in {row.question, row.answer, row.category, row.difficulty}
    THEN {"ok", "error"} ELSE {"ok"}

\* Question.insert() and Question.delete(): the row is added to, or removed
\* from, the table and the change is committed.
insert(row) == questions \cup {row}
delete(row) == questions \ {row}

\* The comparison Question.category == '<digits>' made by the store.
CategoryIs(q, literal) == q.category # None /\ q.category[1] = int(literal)

---------------------------------------------------------------------------
(* Pagination *)

\* Python's seq[start:stop] for integer start and stop of either sign.
SliceIndex(i, n) == IF i < 0 THEN Max(i + n, 0) ELSE Min(i, n)
Slice(s, start, stop) ==
    SubSeq(s, SliceIndex(start, Len(s)) + 1, SliceIndex(stop, Len(s)))

\* request.args.get('page', 1, type=int)
PageArg(args) == IF args.page = None THEN 1 ELSE args.page[1]

Formatted(selection) == [i \in 1..Len(selection) |-> format(selection[i])]

\* Faulty variant: the window starts one page too far.
PaginateNextPage(args, selection) ==
    LET page == PageArg(args)
        start == page * QUESTIONS_PER_PAGE
        stop == start + QUESTIONS_PER_PAGE
    IN  Slice(Formatted(selection), start, stop)

paginate_questions(args, selection) ==
    LET page == PageArg(args)
        start == (page - 1) * QUESTIONS_PER_PAGE
        stop == start + QUESTIONS_PER_PAGE
    IN  Slice(Formatted(selection), start, stop)

---------------------------------------------------------------------------
(* Error handlers *)

not_found == [status |-> 404, success |-> FALSE, error |-> 404,
              message |-> "resource not found"]
unprocessable == [status |-> 422, success |-> FALSE, error |-> 422,
                  message |-> "unprocessable"]
\* An exception no handler catches.
internal_error == [status |-> 500, success |-> FALSE, error |-> 500,
                   message |-> "internal server error"]

---------------------------------------------------------------------------
(* Requests *)

\* The query string: page absent, or page=p.
Args == {[page |-> None]} \cup {[page |-> Some(p)] : p \in 1..MaxPage}

\* Search terms, and the question fields of a new question: one of an
\* existing category, one of a category that does not exist.
SearchTerms == {<<>>, <<"a">>, <<"B">>, <<"_">>, <<"z">>}
NewQuestions == {<<(<<"b">>), 1>>, <<(<<"A", "z">>), NumCategories + 1>>}

\* JSON bodies of POST /questions: the question fields given or absent, the
\* searchTerm field given or absent.
NoFields == [question |-> None, answer |-> None, category |-> None,
             difficulty |-> None]
QuestionFields ==
    {[question |-> Some(n[1]), answer |-> Some(<<"x">>), category |-> Some(n[2]),
      difficulty |-> Some(1)] : n \in NewQuestions}
Body(f, st) == [question |-> f.question, answer |-> f.answer,
                category |-> f.category, difficulty |-> f.difficulty,
                searchTerm |-> st]
Bodies ==
    {Body(f, None) : f \in QuestionFields \cup {NoFields}}
    \cup {Body(NoFields, Some(t)) : t \in SearchTerms}
    \cup {Body(f, Some(t)) : f \in QuestionFields, t \in {<<>>, <<"a">>}}

\* Path ids.
QuestionIds == 1..(MaxSeed + MaxWrites + 1)
CategoryIds == 0..(NumCategories + 1)

---------------------------------------------------------------------------
(* Handlers: each gives the response and the store after the request *)

Outcome(resp, rows, nid) == [response |-> resp, questions |-> rows, next_id |-> nid]
Unchanged(resp) == Outcome(resp, questions, next_id)

\* Python truthiness of body.get(field): None and the empty string are false.
Truthy(field) == field # None /\ field[1] # <<>>

\* GET /categories
get_categories ==
    [status |-> 200, success |-> TRUE,
     categories |-> [i \in {c.id : c \in Categories} |-> CategoryType(i)]]

\* GET /questions
get_questions(args) ==
    LET selection == OrderById(questions)
        current_questions == paginate_questions(args, selection)
    IN  IF Len(current_questions) = 0 THEN not_found
        ELSE [status |-> 200, success |-> TRUE,
              questions |-> current_questions,
              total_questions |-> Len(selection),
              categories |-> CategoryTypes(NumCategories),
              current_category |-> <<>>]

\* Faulty variant: the row is looked up and reported deleted, but not removed.
DeleteNotPersisted(question_id) ==
    LET question == one_or_none(question_id)
    IN  IF question = None THEN Unchanged(unprocessable)
        ELSE Unchanged([status |-> 200, success |-> TRUE, deleted |-> question_id])

\* Faulty variant: abort(404) raised outside the try, so a missing row answers 404.
DeleteMissingIs404(question_id) ==
    LET question == one_or_none(question_id)
    IN  IF question = None THEN Unchanged(not_found)
        ELSE Outcome([status |-> 200, success |-> TRUE, deleted |-> question_id],
                     delete(question[1]), next_id)

\* DELETE /questions/<question_id>: abort(404) is raised inside the try and
\* caught by its except Exception, which aborts with 422.
delete_question_by_id(question_id) ==
    LET question == one_or_none(question_id)
    IN  IF question = None THEN Unchanged(unprocessable)
        ELSE Outcome([status |-> 200, success |-> TRUE, deleted |-> question_id],
                     delete(question[1]), next_id)

\* Faulty variant: the listing of the create branch is queried before the insert.
AddQuestionStaleListing(body, args) ==
    IF Truthy(body.searchTerm)
    THEN LET matches == {q \in questions : ilike(q.question, body.searchTerm[1])}
         IN  {Unchanged(
                 IF Len(selection) = 0 THEN not_found
                 ELSE [status |-> 200, success |-> TRUE,
                       questions |-> paginate_questions(args, selection),
                       total_questions |-> Len(selection),
                       current_category |-> <<>>]) : selection \in AnyOrder(matches)}
    ELSE LET question == [id |-> next_id, question |-> body.question,
                          answer |-> body.answer, category |-> body.category,
                          difficulty |-> body.difficulty]
             selection == OrderById(questions)
         IN  {IF o = "ok"
              THEN Outcome([status |-> 200, success |-> TRUE,
                            questions |-> paginate_questions(args, selection),
                            total_questions |-> Len(selection)],
                           insert(question), next_id + 1)
              ELSE Unchanged(unprocessable) : o \in InsertOutcomes(question)}

\* POST /questions
add_question(body, args) ==
    IF Truthy(body.searchTerm)
    THEN LET matches == {q \in questions : ilike(q.question, body.searchTerm[1])}
         IN  {Unchanged(
                 IF Len(selection) = 0 THEN not_found
                 ELSE [status |-> 200, success |-> TRUE,
                       questions |-> paginate_questions(args, selection),
                       total_questions |-> Len(selection),
                       current_category |-> <<>>]) : selection \in AnyOrder(matches)}
    ELSE LET question == [id |-> next_id, question |-> body.question,
                          answer |-> body.answer, category |-> body.category,
                          difficulty |-> body.difficulty]
             inserted == insert(question)
             selection == OrderById(inserted)
         IN  {IF o = "ok"
              THEN Outcome([status |-> 200, success |-> TRUE,
                            questions |-> paginate_questions(args, selection),
                            total_questions |-> Len(selection)],
                           inserted, next_id + 1)
              ELSE Unchanged(unprocessable) : o \in InsertOutcomes(question)}

\* Faulty variant: the category filter is left out of the query.
ByCategoryUnfiltered(category_id, args) ==
    LET current_category == CategoryFirst(category_id)
        selection == OrderById(questions)
        current_questions == paginate_questions(args, selection)
    IN  IF Len(current_questions) = 0 THEN not_found
        ELSE IF current_category = None THEN internal_error
        ELSE [status |-> 200, success |-> TRUE,
              questions |-> current_questions,
              total_questions |-> Len(selection),
              categories |-> CategoryTypes(NumCategories),
              current_category |-> category_format(current_category[1])]

\* GET /categories/<category_id>/questions
get_questions_by_category(category_id, args) ==
    LET current_category == CategoryFirst(category_id)
        selection == OrderById({q \in questions : CategoryIs(q, str(category_id))})
        current_questions == paginate_questions(args, selection)
    IN  IF Len(current_questions) = 0 THEN not_found
        ELSE IF current_category = None THEN internal_error
        ELSE [status |-> 200, success |-> TRUE,
              questions |-> current_questions,
              total_questions |-> Len(selection),
              categories |-> CategoryTypes(NumCategories),
              current_category |-> category_format(current_category[1])]

\* The rows POST /quizzes draws from: not asked before, and of the category
\* unless its id is 0.  A NULL category equals no id.
QuizPool(category_id, previous) ==
    {q \in questions :
        /\ q.id \notin previous
        /\ category_id # 0 => (q.category # None /\ q.category[1] = category_id)}

\* order_by(func.random()).first(): any row of the pool, None when it is empty.
RandomFirst(rows) == IF rows = {} THEN {None} ELSE {Some(q) : q \in rows}

QuizAnswer(question) ==
    [status |-> 200, success |-> TRUE,
     question |-> IF question = None THEN None ELSE Some(format(question[1]))]

\* Faulty variant: the category filter of the else branch is left out.
QuizAnyCategory(body) ==
    IF body.quiz_category = None THEN {Unchanged(unprocessable)}
    ELSE {Unchanged(QuizAnswer(question)) :
            question \in RandomFirst(QuizPool(0, body.previous_questions))}

\* Faulty variant: previous_questions is not excluded.
QuizIgnoresPrevious(body) ==
    IF body.quiz_category = None THEN {Unchanged(unprocessable)}
    ELSE LET category_id == int(body.quiz_category[1].id)
         IN  {Unchanged(QuizAnswer(question)) :
                question \in RandomFirst(QuizPool(category_id, {}))}

\* POST /quizzes: quiz_category['id'] of a missing quiz_category raises, and
\* the except Exception aborts with 422.
get_quiz_questions(body) ==
    IF body.quiz_category = None THEN {Unchanged(unprocessable)}
    ELSE LET category_id == int(body.quiz_category[1].id)
         IN  {Unchanged(QuizAnswer(question)) :
                question \in RandomFirst(QuizPool(category_id, body.previous_questions))}

---------------------------------------------------------------------------
(* Actions: a handler runs when no request is in progress; after_request then
   sends the response and frees the worker for the next request *)

NoRequest == [op |-> "none"]
NoResponse == [status |-> 0]

Apply(req, outcomes) ==
    /\ request = NoRequest
    /\ request' = req
    /\ \E o \in outcomes :
          /\ response' = o.response
          /\ questions' = o.questions
          /\ next_id' = o.next_id
          /\ writes' = IF o.questions = questions THEN writes ELSE writes + 1
    /\ before' = questions
    /\ UNCHANGED client

GetCategories ==
    Apply([op |-> "get_categories"], {Unchanged(get_categories)})

GetQuestions ==
    \E args \in Args :
        Apply([op |-> "get_questions", args |-> args],
              {Unchanged(get_questions(args))})

DeleteQuestion ==
    \E question_id \in QuestionIds :
        /\ writes < MaxWrites
        /\ Apply([op |-> "delete_question_by_id", question_id |-> question_id],
                 {delete_question_by_id(question_id)})

PostQuestions ==
    \E body \in Bodies, args \in Args :
        /\ writes < MaxWrites \/ Truthy(body.searchTerm)
        /\ Apply([op |-> "add_question", body |-> body, args |-> args],
                 add_question(body, args))

GetQuestionsByCategory ==
    \E category_id \in CategoryIds, args \in Args :
        Apply([op |-> "get_questions_by_category", category_id |-> category_id,
               args |-> args],
              {Unchanged(get_questions_by_category(category_id, args))})

---------------------------------------------------------------------------
(* The store as seeded *)

\* The store starts empty, with less than a page, with exactly one page, or
\* with more than a page of questions.
SeedSizes == {0, 2, QUESTIONS_PER_PAGE, MaxSeed}

SeedText(i) == IF i % 2 = 1 THEN <<"a">> ELSE <<"A", "b">>
Seed(i) == [id |-> i, question |-> Some(SeedText(i)), answer |-> Some(<<"x">>),
            category |-> Some(1 + (i % NumCategories)), difficulty |-> Some(1 + (i % 3))]

Init ==
    /\ \E n \in SeedSizes : questions = {Seed(i) : i \in 1..n} /\ next_id = n + 1
    /\ writes = 0
    /\ before = questions
    /\ request = NoRequest
    /\ response = NoResponse
    /\ previous_questions = {}
    /\ quiz_category = 0
    /\ calls = 0

\* @app.after_request: the response leaves with the CORS headers added.
after_request ==
    /\ request # NoRequest
    /\ request' = NoRequest
    /\ response' = NoResponse
    /\ before' = questions
    /\ UNCHANGED <<questions, next_id, writes, client>>

Next ==
    \/ after_request
    \/ GetCategories
    \/ GetQuestions
    \/ DeleteQuestion
    \/ PostQuestions
    \/ GetQuestionsByCategory

Spec == Init /\ [][Next]_vars

---------------------------------------------------------------------------
(* The quiz: POST /quizzes over every small store *)

\* Category column of a seeded row: NULL, or an id, one of them of no category.
QuizRowCategories == {None} \cup {Some(c) : c \in 1..(NumCategories + 1)}
QuizStores ==
    UNION {{{[id |-> i, question |-> Some(<<"a">>), answer |-> Some(<<"x">>),
              category |-> cs[i], difficulty |-> Some(1)] : i \in 1..n} :
            cs \in [1..n -> QuizRowCategories]} : n \in 0..MaxQuizSeed}

\* JSON bodies of POST /quizzes: quiz_category {"id": "<digits>"} or absent,
\* previous_questions any set of ids, stored or not.
QuizCategory(c) == Some([id |-> str(c)])
QuizBodies ==
    {[quiz_category |-> QuizCategory(c), previous_questions |-> P] :
        c \in CategoryIds, P \in SUBSET (1..(MaxQuizSeed + 1))}
    \cup {[quiz_category |-> None, previous_questions |-> {}]}

GetQuizQuestions ==
    \E body \in QuizBodies :
        Apply([op |-> "get_quiz_questions", body |-> body], get_quiz_questions(body))

InitQuiz ==
    /\ questions \in QuizStores
    /\ next_id = Cardinality(questions) + 1
    /\ writes = 0
    /\ before = questions
    /\ request = NoRequest
    /\ response = NoResponse
    /\ previous_questions = {}
    /\ quiz_category = 0
    /\ calls = 0

NextQuiz ==
    \/ after_request
    \/ GetQuizQuestions

SpecQuiz == InitQuiz /\ [][NextQuiz]_vars

---------------------------------------------------------------------------
(* A quiz session: the client keeps previous_questions and the category, and
   calls POST /quizzes again and again over a store that does not change *)

\* Calls of one session: enough to exhaust every pool and ask twice more.
MaxCalls == MaxQuizSeed + 2

\* The client asks for the next question.
NextQuestion ==
    /\ calls < MaxCalls
    /\ request = NoRequest
    /\ request' = [op |-> "get_quiz_questions",
                   body |-> [quiz_category |-> QuizCategory(quiz_category),
                             previous_questions |-> previous_questions]]
    /\ \E o \in get_quiz_questions(request'.body) :
          /\ response' = o.response
          /\ questions' = o.questions
          /\ next_id' = o.next_id
    /\ UNCHANGED <<writes, before, client>>

\* The client takes the answer and adds the question's id to previous_questions.
RecordAnswer ==
    /\ request # NoRequest
    /\ previous_questions' =
          IF response.status = 200 /\ response.question # None
          THEN previous_questions \cup {response.question[1].id}
          ELSE previous_questions
    /\ calls' = calls + 1
    /\ request' = NoRequest
    /\ response' = NoResponse
    /\ UNCHANGED <<questions, next_id, writes, before, quiz_category>>

InitSession ==
    /\ questions \in QuizStores
    /\ next_id = Cardinality(questions) + 1
    /\ writes = 0
    /\ before = questions
    /\ request = NoRequest
    /\ response = NoResponse
    /\ previous_questions = {}
    /\ quiz_category \in CategoryIds
    /\ calls = 0

NextSession ==
    \/ NextQuestion
    \/ RecordAnswer

\* The client goes on calling: the session of the claim is one that is played on.
SpecSession == InitSession /\ [][NextSession]_vars /\ WF_vars(NextSession)

---------------------------------------------------------------------------
(* Properties of the listing, delete, create, search and category handlers *)

Range(s) == {s[i] : i \in 1..Len(s)}
HasId(rows, id) == \E q \in rows : q.id = id
\* Number of stored questions with a smaller id: the position of q in the
\* ascending-id ordering, counted from 0.
Position(q) == Cardinality({o \in questions : o.id < q.id})

\* t occurs in text as a substring, letter case ignored.
ContainsCI(text, t) ==
    \E k \in 0..(Len(text) - Len(t)) :
        \A j \in 1..Len(t) : Lower(text[k + j]) = Lower(t[j])

\* C1: GET /questions?page=p (p = 1 when absent, p >= 1) over n stored
\* questions answers 200 with exactly the questions at positions
\* (p-1)*10 .. min(p*10, n)-1 of the ascending-id ordering when (p-1)*10 < n,
\* and 404 'resource not found' when (p-1)*10 >= n.
C1_PageWindow ==
    request.op = "get_questions" =>
        LET p == IF request.args.page = None THEN 1 ELSE request.args.page[1]
            n == Cardinality(questions)
            first == (p - 1) * 10
        IN  IF first < n
            THEN /\ response.status = 200
                 /\ Len(response.questions) = Min(10, n - first)
                 /\ \A i \in 1..Len(response.questions) :
                       /\ response.questions[i] \in questions
                       /\ Position(response.questions[i]) = first + i - 1
            ELSE /\ response.status = 404
                 /\ response.message = "resource not found"

\* A second page that holds fewer than ten questions has been served.
C1_Witness ==
    /\ request.op = "get_questions"
    /\ request.args.page = Some(2)
    /\ response.status = 200
    /\ Len(response.questions) < 10

\* C2: DELETE /questions/{id} for a stored id answers 200 with deleted = id;
\* afterwards no question has that id, the store holds exactly one question
\* less, and every other question is unchanged.
C2_DeleteExisting ==
    (request.op = "delete_question_by_id" /\ HasId(before, request.question_id)) =>
        /\ response.status = 200
        /\ response.deleted = request.question_id
        /\ ~HasId(questions, request.question_id)
        /\ Cardinality(questions) = Cardinality(before) - 1
        /\ \A q \in before : q.id # request.question_id => q \in questions
        /\ questions \subseteq before

\* A stored question has been deleted and others are left.
C2_Witness ==
    /\ request.op = "delete_question_by_id"
    /\ response.status = 200
    /\ questions # {}

\* C3: DELETE /questions/{id} for an id that is not stored answers 422
\* 'unprocessable', not 404, and leaves the store unchanged.
C3_DeleteMissing ==
    (request.op = "delete_question_by_id" /\ ~HasId(before, request.question_id)) =>
        /\ response.status = 422
        /\ response.message = "unprocessable"
        /\ questions = before

\* A delete of an id that is not stored has been answered, the store not empty.
C3_Witness ==
    /\ request.op = "delete_question_by_id"
    /\ ~HasId(before, request.question_id)
    /\ questions # {}

\* The questions GET /questions serves, all pages taken together.
Listing ==
    UNION {LET r == get_questions([page |-> Some(p)])
           IN  IF r.status = 200 THEN Range(r.questions) ELSE {} :
           p \in 1..(Cardinality(questions) \div QUESTIONS_PER_PAGE + 1)}

\* C4: a successful create (POST /questions without a search term) adds
\* exactly one question, reports total_questions = previous total + 1, leaves
\* every stored question unchanged, and the new question is on some page of
\* the id-ordered listing in every later state until it is deleted: every
\* stored question is listed, and a question leaves the store only by a
\* delete of its id.
C4_Create ==
    /\ (request.op = "add_question" /\ request.body.searchTerm = None
            /\ response.status = 200) =>
            /\ Cardinality(questions) = Cardinality(before) + 1
            /\ response.total_questions = Cardinality(before) + 1
            /\ before \subseteq questions
            /\ \A q \in questions \ before :
                  /\ q.question = request.body.question
                  /\ q.answer = request.body.answer
                  /\ q.category = request.body.category
                  /\ q.difficulty = request.body.difficulty
                  /\ ~HasId(before, q.id)
    /\ \A q \in before :
          \/ q \in questions
          \/ request.op = "delete_question_by_id" /\ request.question_id = q.id
    /\ {format(q) : q \in questions} \subseteq Listing

\* A question has been created into a store that then holds more than a page.
C4_Witness ==
    /\ request.op = "add_question"
    /\ request.body.searchTerm = None
    /\ response.status = 200
    /\ Cardinality(questions) > QUESTIONS_PER_PAGE

\* A search term the pattern match reads letter by letter.
Literal(t) == t # <<>> /\ \A i \in 1..Len(t) : t[i] \notin {"%", "_"}

\* C5: POST /questions with searchTerm = t, where exactly N stored questions
\* contain t as a case-insensitive substring of their text, answers 200 with
\* exactly those N questions when N >= 1 (also when N > 10) and 404 when
\* N = 0.  Stated for the requests without a page parameter whose term is
\* not empty and has no wildcard character: the claim covers more.
C5_SearchReturnsAll ==
    (/\ request.op = "add_question"
     /\ request.body.searchTerm # None
     /\ Literal(request.body.searchTerm[1])
     /\ request.args.page = None) =>
        LET t == request.body.searchTerm[1]
            matching == {q \in before :
                            q.question # None /\ ContainsCI(q.question[1], t)}
        IN  IF matching # {}
            THEN /\ response.status = 200
                 /\ Range(response.questions) = matching
                 /\ Len(response.questions) = Cardinality(matching)
            ELSE response.status = 404

\* C6: GET /categories/{id}/questions answers 200 only with questions of
\* category id, with total_questions the number of stored questions of that
\* category and current_category the category of that id; it answers 404
\* 'resource not found' whenever no stored question has category id.
C6_ByCategory ==
    request.op = "get_questions_by_category" =>
        LET id == request.category_id
            ofCategory == {q \in questions : q.category = Some(id)}
        IN  /\ response.status = 200 =>
                /\ Range(response.questions) \subseteq ofCategory
                /\ response.total_questions = Cardinality(ofCategory)
                /\ response.current_category \in Categories
                /\ response.current_category.id = id
            /\ ofCategory = {} =>
                /\ response.status = 404
                /\ response.message = "resource not found"

\* The questions of one category have been served while the store also holds
\* questions of another category.
C6_Witness ==
    /\ request.op = "get_questions_by_category"
    /\ response.status = 200
    /\ \E q \in questions : q.category # Some(request.category_id)

\* C8: whenever a stored question has category id, a category with that id
\* exists, so GET /categories/{id}/questions answers 200 or 404 and never
\* fails on a missing current_category.  Stated of the id that is requested.
C8_CategoryAlwaysExists ==
    request.op = "get_questions_by_category" =>
        /\ (\E q \in questions : q.category = Some(request.category_id)) =>
               \E c \in Categories : c.id = request.category_id
        /\ response.status \in {200, 404}

\* C9: a POST /questions body that has a searchTerm field, whatever its
\* value (the empty string too), is handled as a search, so the store is left
\* unchanged; only a body without the field can insert a question.
C9_SearchTermPresence ==
    (request.op = "add_question" /\ request.body.searchTerm # None) =>
        questions = before

---------------------------------------------------------------------------
(* Properties of the quiz *)

\* C7: POST /quizzes with category id c and previous question ids P answers
\* 200 with a stored question q, q.id not in P, q.category = c unless c = 0;
\* and answers 200 with question = null exactly when the pool (the questions
\* of category c, or all when c = 0, minus P) is empty.
C7_QuizDraw ==
    (request.op = "get_quiz_questions" /\ request.body.quiz_category # None) =>
        LET c == CHOOSE k \in CategoryIds : str(k) = request.body.quiz_category[1].id
            P == request.body.previous_questions
            pool == {q \in questions :
                        q.id \notin P /\ (c = 0 \/ q.category = Some(c))}
        IN  /\ response.status = 200
            /\ response.question = None <=> pool = {}
            /\ response.question # None =>
                  /\ response.question[1] \in questions
                  /\ response.question[1].id \notin P
                  /\ c # 0 => response.question[1].category = Some(c)

\* A question of the asked category has been drawn while a question of that
\* category was excluded as asked before and one of another category is stored.
C7_Witness ==
    /\ request.op = "get_quiz_questions"
    /\ request.body.quiz_category = QuizCategory(1)
    /\ response.status = 200
    /\ response.question # None
    /\ \E q \in questions : q.category = Some(1) /\ q.id \in request.body.previous_questions
    /\ \E q \in questions : q.category = Some(2)

\* The ids of the session's pool with nothing asked yet.
SessionPool ==
    {q.id : q \in {r \in questions :
                      quiz_category = 0 \/ r.category = Some(quiz_category)}}

\* After k calls the first min(k, |pool|) answers were questions of the pool,
\* all different; the call in progress answers a question of the pool not
\* asked before while fewer calls than the pool has questions were made, and
\* null from then on.
SessionCovers ==
    /\ previous_questions \subseteq SessionPool
    /\ Cardinality(previous_questions) = Min(calls, Cardinality(SessionPool))
    /\ request.op = "get_quiz_questions" =>
          /\ response.status = 200
          /\ IF calls < Cardinality(SessionPool)
             THEN /\ response.question # None
                  /\ response.question[1].id \in SessionPool \ previous_questions
             ELSE response.question = None

\* C10: a quiz session over an unchanged store, started with
\* previous_questions empty and a fixed category, returns every question of
\* the pool exactly once in as many calls as the pool has questions, never
\* repeats a question, returns null on every call after that, and gets there.
C10_QuizSession ==
    /\ []SessionCovers
    /\ <>(previous_questions = SessionPool /\ calls > Cardinality(SessionPool))

\* A session over a pool of several questions, in a store that holds others
\* too, has been answered null after the whole pool was asked.
C10_Witness ==
    /\ request.op = "get_quiz_questions"
    /\ response.question = None
    /\ Cardinality(previous_questions) >= 2
    /\ Cardinality(questions) > Cardinality(previous_questions)

=============================================================================
